---- MODULE Spec2Model ----
(***************************************************************************)
(* The "setups" REST controller of app/routes/setup_routes.js: five Express*)
(* routes over a Mongoose model, guarded by a bearer token and by record   *)
(* ownership.  Every request runs as a promise chain: the synchronous part *)
(* of the handler is one step, and each persistence call (find, findById,  *)
(* create, updateOne, deleteOne) settles in a later step, so that requests *)
(* interleave exactly where the event loop lets them.                      *)
(***************************************************************************)
EXTENDS Integers, FiniteSets, Sequences, TLC

(* ---------------------------- bounds ----------------------------------- *)
\* number of requests that can be in flight at the same time
NumReq == 2
\* number of record ids the store ever hands out
MaxIds == 1

(* ------------------------- JavaScript values --------------------------- *)
\* a JavaScript value is <<typeof, text>>, so that '' , 0 and false differ
Str(s) == <<"string", s>>
Zero == <<"number", "0">>
False == <<"boolean", "false">>

Users == {"A", "B"}
\* a request without a (valid) bearer token
NoUser == "anonymous"
Callers == Users \cup {NoUser}
\* req.user.id
UserId(u) == Str(u)

Keys == {"title", "owner"}
TitleValues == {Str(""), Str("x"), Zero, False}
OwnerValues == {UserId(u) : u \in Users}
Allowed(k) == IF k = "owner" THEN OwnerValues ELSE TitleValues
\* the `setup` objects a client can send: any subset of the keys
Payloads ==
    UNION { {f \in [K -> TitleValues \cup OwnerValues] : \A k \in K : f[k] \in Allowed(k)}
            : K \in SUBSET Keys }

\* `null`: what findById resolves with when no document has the id
NoRecord == <<>>
Ids == 1..MaxIds
Reqs == 1..NumReq

Has(obj, k) == k \in DOMAIN obj
\* delete obj[k]
Without(obj, k) == [j \in DOMAIN obj \ {k} |-> obj[j]]
\* obj[k] = v
With(obj, k, v) == [j \in DOMAIN obj \cup {k} |-> IF j = k THEN v ELSE obj[j]]
\* the fields of `upd` written over those of `rec`
Merge(rec, upd) ==
    [j \in DOMAIN rec \cup DOMAIN upd |-> IF j \in DOMAIN upd THEN upd[j] ELSE rec[j]]

(* ----------------------------- state ----------------------------------- *)
VARIABLES
    store,      \* the collection: id -> document, or NoRecord
    nextId,     \* the id the next created document gets
    creator,    \* history: id -> the caller whose POST created the document
    req         \* slot -> the request being served in it

vars == <<store, nextId, creator, req>>

IdleReq ==
    [kind |-> "none", user |-> NoUser, id |-> 0, body |-> <<>>, sent |-> <<>>,
     pc |-> "idle", status |-> 0, nresp |-> 0, err |-> "none", op |-> "none",
     late |-> FALSE]

Init ==
    /\ store = [i \in Ids |-> NoRecord]
    /\ nextId = 1
    /\ creator = [i \in Ids |-> NoUser]
    /\ req = [r \in Reqs |-> IdleReq]


(* ------------------- collaborators outside the router ------------------ *)
\* requireToken: passport resolves the bearer token to req.user, or ends the
\* request with 401 before the next middleware runs
Authenticated(u) == u # NoUser

\* removeBlanks: every key of `setup` whose value is exactly '' is deleted
RemoveBlanks(setup) == [k \in {j \in DOMAIN setup : setup[j] # Str("")} |-> setup[k]]

\* handle404 throws when the lookup resolved with no document
Handle404Throws(rec) == rec = NoRecord
\* requireOwnership throws when the document's owner is not the caller
RequireOwnershipThrows(u, rec) == rec["owner"] # UserId(u)

\* the status the central error handler answers an error with
ErrorStatus(e) ==
    CASE e = "NotFound" -> 404
      [] e = "Forbidden" -> 403
      [] OTHER -> 500

\* res.status(code).json(..) / res.sendStatus(code): one response written
Send(q, code) == [q EXCEPT !.status = code, !.nresp = @ + 1]
\* next(err): the error reaches the central handler, which answers it
NextErr(q, e) == Send([q EXCEPT !.err = e], ErrorStatus(e))
\* the promise chain of the request has settled: req and its body are released;
\* the slot keeps what was answered, what was sent, and the id of a document
\* an operation is still pending on
Settled(q) ==
    [q EXCEPT !.pc = "done", !.body = <<>>, !.user = NoUser, !.late = FALSE,
              !.id = IF q.op = "pending" THEN @ ELSE 0]

NewReq(kind, u, id) == [IdleReq EXCEPT !.kind = kind, !.user = u, !.id = id]
\* a new request is served in the first free slot
Idle(r) == req[r].pc = "idle" /\ \A q \in Reqs : q < r => req[q].pc # "idle"
At(r, kind, pc) == req[r].kind = kind /\ req[r].pc = pc

(* ------------------------------ INDEX ---------------------------------- *)
\* GET /setups: no requireToken; Setup.find() is started
Index(r, u) ==
    /\ Idle(r)
    /\ req' = [req EXCEPT ![r] = [NewReq("index", NoUser, 0) EXCEPT !.pc = "find"]]
    /\ UNCHANGED <<store, nextId, creator>>

IndexResolves(r) ==
    /\ At(r, "index", "find")
    /\ req' = [req EXCEPT ![r] = Settled(Send(@, 200))]
    /\ UNCHANGED <<store, nextId, creator>>

\* mutant: the chain has no .catch(next)
IndexRejectsUncaught(r) ==
    /\ At(r, "index", "find")
    /\ req' = [req EXCEPT ![r] = Settled(@)]
    /\ UNCHANGED <<store, nextId, creator>>

IndexRejects(r) ==
    /\ At(r, "index", "find")
    /\ req' = [req EXCEPT ![r] = Settled(NextErr(@, "PersistenceError"))]
    /\ UNCHANGED <<store, nextId, creator>>

(* ------------------------------- SHOW ---------------------------------- *)
\* a DELETE of this id has already been answered 204 (and its deleteOne is
\* still outstanding)
AnsweredDelete(id) ==
    \E d \in Reqs : req[d].kind = "destroy" /\ req[d].id = id /\ req[d].status = 204

\* mutant: the route is registered without requireToken
ShowWithoutToken(r, u, id) ==
    /\ Idle(r)
    /\ req' = [req EXCEPT ![r] = [NewReq("show", u, id) EXCEPT !.pc = "find",
                                                              !.late = AnsweredDelete(id)]]
    /\ UNCHANGED <<store, nextId, creator>>

\* GET /setups/:id: requireToken, then Setup.findById is started
Show(r, u, id) ==
    /\ Idle(r)
    /\ req' = [req EXCEPT ![r] =
                 IF Authenticated(u)
                 THEN [NewReq("show", u, id) EXCEPT !.pc = "find",
                                                    !.late = AnsweredDelete(id)]
                 ELSE Settled(Send(NewReq("show", u, id), 401))]
    /\ UNCHANGED <<store, nextId, creator>>

ShowResolves(r) ==
    /\ At(r, "show", "find")
    /\ req' = [req EXCEPT ![r] =
                 IF Handle404Throws(store[req[r].id])
                 THEN Settled(NextErr(@, "NotFound"))
                 ELSE Settled(Send(@, 200))]
    /\ UNCHANGED <<store, nextId, creator>>

ShowRejects(r) ==
    /\ At(r, "show", "find")
    /\ req' = [req EXCEPT ![r] = Settled(NextErr(@, "PersistenceError"))]
    /\ UNCHANGED <<store, nextId, creator>>

(* ------------------------------ CREATE --------------------------------- *)
\* mutant: the owner is set only when the client sent none
CreateBodyTrustsClient(u, setup) ==
    IF Has(setup, "owner") THEN setup ELSE With(setup, "owner", UserId(u))

\* req.body.setup.owner = req.user.id
CreateBody(u, setup) == With(setup, "owner", UserId(u))

\* creates started and not yet settled
PendingCreates == Cardinality({q \in Reqs : req[q].pc = "create"})

\* POST /setups: requireToken, owner forced, Setup.create is started
Create(r, u, setup) ==
    /\ Idle(r)
    /\ Authenticated(u) => nextId + PendingCreates <= MaxIds
    /\ req' = [req EXCEPT ![r] =
                 IF Authenticated(u)
                 THEN [NewReq("create", u, 0) EXCEPT !.pc = "create",
                                                     !.sent = setup,
                                                     !.body = CreateBody(u, setup)]
                 ELSE Settled(Send(NewReq("create", u, 0), 401))]
    /\ UNCHANGED <<store, nextId, creator>>

CreateResolves(r) ==
    /\ At(r, "create", "create")
    /\ store' = [store EXCEPT ![nextId] = req[r].body]
    /\ creator' = [creator EXCEPT ![nextId] = req[r].user]
    /\ nextId' = nextId + 1
    /\ req' = [req EXCEPT ![r] = Settled(Send([@ EXCEPT !.id = nextId], 201))]

CreateRejects(r) ==
    /\ At(r, "create", "create")
    /\ req' = [req EXCEPT ![r] = Settled(NextErr(@, "PersistenceError"))]
    /\ UNCHANGED <<store, nextId, creator>>

(* ------------------------------ UPDATE --------------------------------- *)
\* mutant: removeBlanks is missing from the middleware chain
UpdateBodyKeepsBlanks(setup) == Without(setup, "owner")

\* removeBlanks in the middleware chain, then `delete req.body.setup.owner`
UpdateBody(setup) == Without(RemoveBlanks(setup), "owner")

\* mutant: the ownership check runs first and takes a missing document for a
\* foreign one
UpdateGuardsOwnershipFirst(u, rec) ==
    IF rec = NoRecord \/ RequireOwnershipThrows(u, rec) THEN "Forbidden" ELSE "ok"

\* .then(handle404) and then requireOwnership, in this order
UpdateGuards(u, rec) ==
    IF Handle404Throws(rec) THEN "NotFound"
    ELSE IF RequireOwnershipThrows(u, rec) THEN "Forbidden"
    ELSE "ok"

\* mutant: the update is an upsert
UpdateOneUpsert(rec, body) == Merge(rec, body)

\* setup.updateOne(body): the document with this _id, if any, gets the fields
UpdateOneEffect(rec, body) == IF rec = NoRecord THEN NoRecord ELSE Merge(rec, body)

\* what updateOne resolves with, which the handler never reads: whether a
\* document matched (n = 1) or none did (n = 0)
UpdateOneResult(rec) == IF rec = NoRecord THEN "unmatched" ELSE "done"

\* PATCH /setups/:id: requireToken, removeBlanks, owner deleted, findById started
Update(r, u, id, setup) ==
    /\ Idle(r)
    /\ req' = [req EXCEPT ![r] =
                 IF Authenticated(u)
                 THEN [NewReq("update", u, id) EXCEPT !.pc = "find",
                                                      !.sent = setup,
                                                      !.body = UpdateBody(setup)]
                 ELSE Settled(Send(NewReq("update", u, id), 401))]
    /\ UNCHANGED <<store, nextId, creator>>

\* findById resolved: the guards run and updateOne is started
UpdateFound(r) ==
    /\ At(r, "update", "find")
    /\ LET g == UpdateGuards(req[r].user, store[req[r].id]) IN
       req' = [req EXCEPT ![r] =
                 IF g = "ok" THEN [@ EXCEPT !.pc = "updateOne", !.op = "pending"]
                 ELSE Settled(NextErr(@, g))]
    /\ UNCHANGED <<store, nextId, creator>>

UpdateFindRejects(r) ==
    /\ At(r, "update", "find")
    /\ req' = [req EXCEPT ![r] = Settled(NextErr(@, "PersistenceError"))]
    /\ UNCHANGED <<store, nextId, creator>>

\* updateOne resolved: .then(() => res.sendStatus(204))
UpdateOneResolves(r) ==
    /\ At(r, "update", "updateOne")
    /\ store' = [store EXCEPT ![req[r].id] = UpdateOneEffect(@, req[r].body)]
    /\ req' = [req EXCEPT ![r] =
                 Settled(Send([@ EXCEPT !.op = UpdateOneResult(store[req[r].id])], 204))]
    /\ UNCHANGED <<nextId, creator>>

UpdateOneRejects(r) ==
    /\ At(r, "update", "updateOne")
    /\ req' = [req EXCEPT ![r] =
                 Settled(NextErr([@ EXCEPT !.op = "failed"], "PersistenceError"))]
    /\ UNCHANGED <<store, nextId, creator>>

(* ------------------------------ DESTROY -------------------------------- *)
\* mutant: requireOwnership is left out
DestroyGuardsNoOwnership(u, rec) == IF Handle404Throws(rec) THEN "NotFound" ELSE "ok"

\* .then(handle404) and then requireOwnership, in this order
DestroyGuards(u, rec) ==
    IF Handle404Throws(rec) THEN "NotFound"
    ELSE IF RequireOwnershipThrows(u, rec) THEN "Forbidden"
    ELSE "ok"

\* DELETE /setups/:id: requireToken, then findById is started
Destroy(r, u, id) ==
    /\ Idle(r)
    /\ req' = [req EXCEPT ![r] =
                 IF Authenticated(u)
                 THEN [NewReq("destroy", u, id) EXCEPT !.pc = "find"]
                 ELSE Settled(Send(NewReq("destroy", u, id), 401))]
    /\ UNCHANGED <<store, nextId, creator>>

\* findById resolved: the guards run, setup.deleteOne() is started and its
\* promise dropped (the callback returns undefined), so the next .then sends
\* 204 in the same turn
DestroyFound(r) ==
    /\ At(r, "destroy", "find")
    /\ LET g == DestroyGuards(req[r].user, store[req[r].id]) IN
       req' = [req EXCEPT ![r] =
                 IF g = "ok" THEN Settled(Send([@ EXCEPT !.op = "pending"], 204))
                 ELSE Settled(NextErr(@, g))]
    /\ UNCHANGED <<store, nextId, creator>>

DestroyFindRejects(r) ==
    /\ At(r, "destroy", "find")
    /\ req' = [req EXCEPT ![r] = Settled(NextErr(@, "PersistenceError"))]
    /\ UNCHANGED <<store, nextId, creator>>

\* the dropped deleteOne takes effect in the store
DeleteOneResolves(r) ==
    /\ req[r].kind = "destroy" /\ req[r].op = "pending"
    /\ store' = [store EXCEPT ![req[r].id] = NoRecord]
    /\ creator' = [creator EXCEPT ![req[r].id] = NoUser]
    /\ req' = [req EXCEPT ![r].op = "done", ![r].id = 0]
    /\ UNCHANGED nextId

\* the dropped deleteOne rejects: no handler is attached to its promise
DeleteOneRejects(r) ==
    /\ req[r].kind = "destroy" /\ req[r].op = "pending"
    /\ req' = [req EXCEPT ![r].op = "failed", ![r].id = 0]
    /\ UNCHANGED <<store, nextId, creator>>

(* ----------------------------------------------------------------------- *)
\* the request is over and nothing of it is pending: the slot is free again
Finish(r) ==
    /\ req[r].pc = "done" /\ req[r].op # "pending"
    /\ req' = [req EXCEPT ![r] = IdleReq]
    /\ UNCHANGED <<store, nextId, creator>>

\* the steps of the requests served in `slots`, with POST payloads from
\* `creates` and PATCH payloads from `updates`
NextOn(slots, creates, updates) ==
    \E r \in slots :
        \/ \E u \in Callers : Index(r, u)
        \/ IndexResolves(r)
        \/ IndexRejects(r)
        \/ \E u \in Callers, id \in Ids : Show(r, u, id)
        \/ ShowResolves(r)
        \/ ShowRejects(r)
        \/ \E u \in Callers, setup \in creates : Create(r, u, setup)
        \/ CreateResolves(r)
        \/ CreateRejects(r)
        \/ \E u \in Callers, id \in Ids, setup \in updates : Update(r, u, id, setup)
        \/ UpdateFound(r)
        \/ UpdateFindRejects(r)
        \/ UpdateOneResolves(r)
        \/ UpdateOneRejects(r)
        \/ \E u \in Callers, id \in Ids : Destroy(r, u, id)
        \/ DestroyFound(r)
        \/ DestroyFindRejects(r)
        \/ DeleteOneResolves(r)
        \/ DeleteOneRejects(r)
        \/ Finish(r)

\* payloads of the interleaved runs: both name a foreign owner; the POST has a
\* blank title, the PATCH a new one
RaceCreates == { [k \in Keys |-> IF k = "owner" THEN UserId("B") ELSE Str("")] }
RaceUpdates == { [k \in Keys |-> IF k = "owner" THEN UserId("B") ELSE Str("x")] }

\* requests in every slot, interleaved
Next == NextOn(Reqs, RaceCreates, RaceUpdates)
Spec == Init /\ [][Next]_vars

\* one request at a time, with every payload
SeqNext == NextOn({1}, Payloads, Payloads)
SeqSpec == Init /\ [][SeqNext]_vars

\* every persistence call a request has started settles: the driver resolves or
\* rejects it
Settle(r) ==
    \/ IndexResolves(r) \/ IndexRejects(r)
    \/ ShowResolves(r) \/ ShowRejects(r)
    \/ CreateResolves(r) \/ CreateRejects(r)
    \/ UpdateFound(r) \/ UpdateFindRejects(r)
    \/ UpdateOneResolves(r) \/ UpdateOneRejects(r)
    \/ DestroyFound(r) \/ DestroyFindRejects(r)
    \/ DeleteOneResolves(r) \/ DeleteOneRejects(r)

SeqFairSpec == SeqSpec /\ WF_vars(Settle(1))

(* ------------------------------ properties ----------------------------- *)
ById == {"show", "update", "destroy"}
Mutating == {"update", "destroy"}
\* the step in which the findById of request r resolves (it does not reject)
FindResolved(r) ==
    /\ req[r].kind \in ById /\ req[r].pc = "find"
    /\ req'[r].pc # "find" /\ req'[r].err # "PersistenceError"

\* C1: when the findById of an authenticated GET, PATCH or DELETE by id
\* resolves and no document has the id, the request ends in NotFound (404),
\* whoever the caller is; it never ends in Forbidden (403).
NotFoundFirst ==
    [][\A r \in Reqs :
         (FindResolved(r) /\ store[req[r].id] = NoRecord)
         => (req'[r].pc = "done" /\ req'[r].err = "NotFound" /\ req'[r].status = 404)]_vars

NotFoundSeen == \E r \in Reqs : req[r].kind = "update" /\ req[r].status = 404

CreatorOwns ==
    \A id \in Ids :
        store[id] # NoRecord
        => (creator[id] \in Users /\ store[id]["owner"] = UserId(creator[id]))

\* a document created by A with `owner: B` in the payload, then updated by A
\* with `owner: B` in the payload (only a PATCH writes the title "x")
OwnerKept ==
    \E id \in Ids : /\ store[id] # NoRecord
                    /\ store[id]["title"] = Str("x")
                    /\ store[id]["owner"] = UserId("A")

\* C4: a GET by id issued after a DELETE of that id was answered 204 ends in
\* 404 (its lookup not failing).
GoneAfter204 ==
    [][\A r \in Reqs :
         (FindResolved(r) /\ req[r].kind = "show" /\ req[r].late)
         => req'[r].status = 404]_vars

\* C5: a PATCH or DELETE has answered 204 only if its updateOne / deleteOne
\* has completed.
MutatedBefore204 ==
    \A r \in Reqs :
        (req[r].kind \in Mutating /\ req[r].status = 204)
        => req[r].op \in {"done", "unmatched"}

\* C6: a persistence operation that failed has been passed to the error
\* handler, and no success response is written while an operation of the
\* request can still fail.
FailuresFunnelled ==
    \A r \in Reqs :
        /\ req[r].op = "failed" => req[r].err = "PersistenceError"
        /\ ~(req[r].status \in {200, 201, 204} /\ req[r].op = "pending")

\* C7: no request is ever answered twice, a request whose chain has settled
\* has been answered once, and (every persistence call settling) every request
\* in flight gets there.
InFlight(r) == req[r].pc \in {"find", "create", "updateOne"}
OneResponse ==
    /\ [](\A r \in Reqs : /\ req[r].nresp <= 1
                          /\ req[r].pc = "done" => req[r].nresp = 1)
    /\ \A r \in Reqs : InFlight(r) ~> (req[r].pc = "done" /\ req[r].nresp = 1)

ErrorAnswered == \E r \in Reqs : req[r].err = "PersistenceError" /\ req[r].nresp = 1

\* C8: when the updateOne of an owner's PATCH takes effect on a document, each
\* field the payload named with a value other than '' (0 and false included)
\* has that value, and each field it named with '' or did not name is as it
\* was; the owner is as it was.
Fields == Keys \ {"owner"}
BlanksKept ==
    [][\A r \in Reqs :
         (/\ req[r].kind = "update" /\ req[r].pc = "updateOne"
          /\ req'[r].status = 204 /\ store[req[r].id] # NoRecord)
         => LET old == store[req[r].id]
                new == store'[req[r].id]
                sent == req[r].sent
            IN /\ new # NoRecord /\ new["owner"] = old["owner"]
               /\ \A k \in Fields :
                    IF Has(sent, k) /\ sent[k] # Str("")
                    THEN Has(new, k) /\ new[k] = sent[k]
                    ELSE /\ Has(new, k) <=> Has(old, k)
                         /\ Has(old, k) => new[k] = old[k]]_vars

\* a PATCH with a blank title was answered 204 and the title is still 0
BlankSeen ==
    \E r \in Reqs :
        /\ req[r].kind = "update" /\ req[r].status = 204
        /\ Has(req[r].sent, "title") /\ req[r].sent["title"] = Str("")
        /\ \E id \in Ids : /\ store[id] # NoRecord /\ Has(store[id], "title")
                           /\ store[id]["title"] = Zero

\* C9: a request without a valid token is served only by GET /setups; on the
\* four other routes it is answered 401 in the step it arrives, no persistence
\* call is started and the store is as it was.
TokenRequired ==
    [][\A r \in Reqs :
         (req[r].pc = "idle" /\ req'[r].pc # "idle" /\ req'[r].user = NoUser)
         => IF req'[r].kind = "index"
            THEN req'[r].pc = "find"
            ELSE /\ req'[r].pc = "done" /\ req'[r].status = 401
                 /\ req'[r].nresp = 1 /\ req'[r].op = "none"
                 /\ store' = store]_vars

Rejected401 == \E r \in Reqs : req[r].kind = "show" /\ req[r].status = 401

\* C10, as claimed: a PATCH answered 204 has applied its update to a document
\* that was in the store when the update took effect.
Patch204Applied ==
    \A r \in Reqs :
        (req[r].kind = "update" /\ req[r].status = 204) => req[r].op = "done"

\* C10, amended: a PATCH is answered 204 when its updateOne resolves; the
\* update is applied if the document is still in the store at that moment,
\* and if a DELETE removed it since the findById, the PATCH is answered 204
\* all the same and the store is as it was (the document stays absent).
Patch204Race ==
    [][\A r \in Reqs :
         (req[r].kind = "update" /\ req[r].status # 204 /\ req'[r].status = 204)
         => /\ req[r].pc = "updateOne"
            /\ IF store[req[r].id] = NoRecord
               THEN store' = store /\ req'[r].op = "unmatched"
               ELSE /\ store' = [store EXCEPT ![req[r].id] = Merge(@, req[r].body)]
                    /\ req'[r].op = "done"]_vars

PatchMissed ==
    \E r \in Reqs : req[r].kind = "update" /\ req[r].status = 204
                    /\ req[r].op = "unmatched"

====
